---- MODULE Spec2Model ----
(***************************************************************************)
(* A model of feediverse (src/feediverse.py): the incremental feed-to-post *)
(* pipeline.  One run of main() is a sequence of steps over the configured *)
(* feeds; between runs the feeds gain entries.  The posting client, the    *)
(* feed documents and the configuration file are the environment.          *)
(*                                                                         *)
(* A timestamp text (the 'updated' string of a feed entry, the 'updated'   *)
(* value of the configuration file) is the pair <<sec, frac>>: its whole   *)
(* seconds and its fraction of a second.  dateutil.parser.parse keeps the  *)
(* fraction (a datetime), feedparser's updated_parsed (a time.struct_time) *)
(* has no field for it.                                                    *)
(***************************************************************************)
EXTENDS Integers, Sequences, FiniteSets, TLC

\* ------------------------------------------------------------------ bounds
MaxSec     == 1   \* entries carry whole seconds 1..MaxSec
MaxEntries == 2   \* entries over all feeds
MaxRuns    == 2   \* runs of main() in one behaviour
NumUrls    == 1   \* candidate media URLs of an entry
MaxText    == 8   \* characters of a content or summary text given to make_status
MaxLength  == 10  \* make_status is called with max_length in 1..MaxLength
MaxUrls    == 6   \* candidate URLs given to collect_images on its own
MaxMedia   == 5   \* candidate media URLs of an entry in the runs over media-rich entries
MaxChars   == 5   \* characters and tags of a text given to cleanup
MaxLinks   == 3   \* links of an entry given to get_entry
MaxTags    == 2   \* tags of an entry given to get_entry

\* ------------------------------------------------------- program constants
MAX_IMAGES == 4

Feeds      == {1, 2}            \* config["feeds"]: the configured feeds, in order
NumFeeds   == Cardinality(Feeds)
Fractions  == {0, 1}            \* the fractions of a second a timestamp text can carry
SubSec     == Cardinality(Fractions)
TimeTexts  == (1..MaxSec) \X Fractions
SetupTimes == {<<1, 0>>}        \* datetime.now() when setup() runs
NoUpdated == <<>>                                   \* the file has no 'updated' key
NoFile    == [isfile |-> FALSE, updated |-> NoUpdated, include_images |-> FALSE]
NoEntry   == [feed |-> 0, updated |-> <<>>]

Max(a, b) == IF a >= b THEN a ELSE b

\* dateutil.parser.parse(text): a datetime, ordered by instant, fraction kept
DateutilParse(text) == text[1] * SubSec + text[2]

\* datetime.isoformat(): the text of a datetime, fraction kept
IsoFormat(dt) == <<dt \div SubSec, dt % SubSec>>

\* feedparser's e.updated_parsed: a struct_time, whole seconds only
UpdatedParsed(text) == text[1]

\* read_config's default: datetime(MINYEAR, 1, 1, ...), before every entry
MinYear == DateutilParse(<<0, 0>>)

VARIABLES
    feeds,        \* feeds[f]: the entries of feed f in document order (their 'updated' texts)
    file,         \* the configuration file: [isfile, updated, include_images]
    posted,       \* posted[f][text]: status_post calls that returned for that entry
    pc,           \* position of main(): feed, yield, media, done, aborted; idle: no process
    dry_run,      \* args.dry_run of the current run
    config,       \* the configuration in memory: [updated, include_images]; updated is
                  \* a datetime from read_config on, a text once line 117 has set it
    newest_post,  \* main's newest_post
    feedIdx,      \* index of the feed the outer loop is at
    entries,      \* get_feed's sorted list, the part not yet yielded
    entry,        \* the entry being processed: [feed, updated] or NoEntry
    images,       \* images[i]: how often handle i of the current entry was released
    imgIdx,       \* position of the media loop
    media_ids,    \* main's media_ids while the entry is processed (line 102 rebinds it)
    yielded,      \* history: the entries get_feed yielded in this run, in order
    mediaPosts,   \* history: media_post calls for the current entry
    statusPosts,  \* history: status_post calls for the current entry (returned or raised)
    raised,       \* history: what raised in this run: none, fetch, media_post, status_post
    fileAtStart,  \* history: the configuration file when the run started
    startUpdated, \* history: config["updated"] as read_config returned it to this run
    runs,         \* history: runs started
    everDry,      \* history: some run so far was a dry run
    everFetch,    \* history: some run so far was ended by an exception of a media fetch
    didSetup,     \* history: setup() wrote the file in this behaviour
    saves,        \* history: how often this run has written the configuration file
    candidates,   \* how many candidate URLs find_urls gives for an entry of these feeds
    msPc,         \* make_status alone: "call" before the call, "returned" after it
    msTemplate,   \* its template argument
    msEntry,      \* its entry argument: [title, url, content, summary]
    msMax,        \* its max_length argument
    msResult,     \* what it returned: [raised, text]
    ciPc,         \* collect_images alone: "call" before the call, "returned" after it
    ciOutcomes,   \* the outcome of the GET of each candidate URL, in candidate order
    ciResult,     \* what it did: [images, raised, requests]
    clPc,         \* cleanup alone: "call" before the calls, "returned" after them
    clText,       \* its text argument
    clResult,     \* [once, twice]: cleanup(text) and cleanup(cleanup(text))
    gePc,         \* get_entry alone: "call" before the call, "returned" after it
    geGenerator,  \* its generator argument
    geEntry,      \* its entry argument: [id, links, tags]
    geResult      \* what it returned: [raised, url, hashtags]

vars == <<feeds, file, posted, pc, dry_run, config, newest_post, feedIdx, entries,
          entry, images, imgIdx, media_ids, yielded, mediaPosts,
          statusPosts, raised, fileAtStart, startUpdated, runs, everDry,
          everFetch, didSetup, saves, candidates, msPc, msTemplate, msEntry, msMax, msResult,
          ciPc, ciOutcomes, ciResult, clPc, clText, clResult,
          gePc, geGenerator, geEntry, geResult>>

\* ------------------------------------------------------------- get_feed
\* a slip of line 186: >= for >
EligibleOrEqual(text, last_update) == DateutilParse(text) >= last_update

\* line 185: `if last_update:`; a datetime has no false value, so the filter
\* of line 186 always applies: an entry is kept when its parsed 'updated' is
\* after last_update
Eligible(text, last_update) == DateutilParse(text) > last_update

\* line 186: the list comprehension over feed.entries
FilterEntries(doc, last_update) ==
    SelectSeq(doc, LAMBDA text : Eligible(text, last_update))

\* line 189: the sort key, e.updated_parsed
SortKey(text) == UpdatedParsed(text)

\* list.sort is stable: an element goes after every element whose key is not greater
RECURSIVE InsertByKey(_, _)
InsertByKey(text, sorted) ==
    IF sorted = <<>> THEN <<text>>
    ELSE IF SortKey(Head(sorted)) <= SortKey(text)
         THEN <<Head(sorted)>> \o InsertByKey(text, Tail(sorted))
         ELSE <<text>> \o sorted

RECURSIVE SortEntries(_)
SortEntries(doc) ==
    IF doc = <<>> THEN <<>>
    ELSE InsertByKey(doc[Len(doc)], SortEntries(SubSeq(doc, 1, Len(doc) - 1)))

\* lines 184-189: what get_feed will yield, in order
GetFeed(doc, last_update) == SortEntries(FilterEntries(doc, last_update))

\* a slip of line 86: the running maximum passed instead of config["updated"]
LastUpdateNewest == newest_post

\* line 86: the last_update main passes to get_feed
LastUpdateArg == config.updated

\* ------------------------------------------------------- collect_images
\* The outcome of one GET: a content-type prefix, or an exception
Outcomes == {"image/", "text/", "HTTPError", "KeyError"}

\* the outcomes that are an exception: urllib3's HTTPError from http.request
\* (line 226), a KeyError from headers["content-type"] (line 227)
Exceptions == {"HTTPError", "KeyError"}

\* a slip of line 234: nothing caught
SwallowedNone(outcome) == FALSE

\* lines 234-236: the except clause takes urllib3.exceptions.HTTPError only
Swallowed(outcome) == outcome = "HTTPError"

\* a slip of line 230: the loop never left
CapNever(kept) == FALSE

\* line 230: len(images) >= MAX_IMAGES, the loop is left
CapReached(kept) == Len(kept) >= MAX_IMAGES

\* line 227: resp.headers["content-type"].startswith(("image/", "video/"))
IsMedia(ctype) == ctype \in {"image/", "video/"}

\* lines 223-237: the loop over the candidate URLs from URL i on, `kept` being
\* the images list so far.  An HTTPError is swallowed (lines 234-236); any
\* other exception leaves the function with the kept handles still open.
RECURSIVE CollectFrom(_, _, _)
CollectFrom(outcomes, i, kept) ==
    IF i > Len(outcomes) THEN [images |-> kept, raised |-> FALSE, requests |-> i - 1]
    ELSE IF outcomes[i] \in Exceptions
         THEN IF Swallowed(outcomes[i])
              THEN CollectFrom(outcomes, i + 1, kept)
              ELSE [images |-> kept, raised |-> TRUE, requests |-> i]
    ELSE IF IsMedia(outcomes[i])
         THEN LET more == Append(kept, [url |-> i, ctype |-> outcomes[i], released |-> 0, upload |-> "none"])
              IN  IF CapReached(more)
                  THEN [images |-> more, raised |-> FALSE, requests |-> i]
                  ELSE CollectFrom(outcomes, i + 1, more)
    ELSE CollectFrom(outcomes, i + 1, kept)   \* line 233: released at once, not kept

CollectImages(outcomes) == CollectFrom(outcomes, 1, <<>>)

\* line 278: collect_images(...) if include_images else []
EntryImages(include_images, outcomes) ==
    IF include_images THEN CollectImages(outcomes)
    ELSE [images |-> <<>>, raised |-> FALSE, requests |-> 0]

\* --------------------------------------------------------------- main
\* a slip of line 106: every result taken for a media dict
NoErrorAny(result) == TRUE

\* line 106: `not "error" in media`
NoError(result) == result = "media"

\* a slip of line 105: the handle not released
ReleaseConnNot(released) == released

\* line 105: img.release_conn(), counted on the handle
ReleaseConn(released) == released + 1

\* a slip of line 117: the write-back inside the loop over the feeds
FeedsExhaustedAny(idx) == TRUE

\* line 83: the loop over config["feeds"] has no feed left
FeedsExhausted(idx) == idx > NumFeeds

\* a slip of line 90: the last entry's timestamp taken, not the maximum
NewestPostLast(newest, updated) == updated

\* line 90
NewestPost(newest, updated) == Max(newest, updated)

AllEntries == {[feed |-> f, updated |-> t] : f \in Feeds, t \in TimeTexts}

InFeed(e) == \E i \in 1..Len(feeds[e.feed]) : feeds[e.feed][i] = e.updated

NumEntries(fs) == Cardinality({e \in AllEntries :
                      \E i \in 1..Len(fs[e.feed]) : fs[e.feed][i] = e.updated})

\* read_config, lines 159-169: the default of 'updated', the file's value parsed
ReadConfig(f) ==
    [updated |-> IF f.updated = NoUpdated THEN MinYear ELSE DateutilParse(f.updated),
     include_images |-> f.include_images]

\* save_config, lines 153-156: the file now holds the configuration
SaveConfig(cfg) ==
    [isfile |-> TRUE, updated |-> cfg.updated, include_images |-> cfg.include_images]

\* setup, lines 316-329: the file setup saves; 'updated' is set to now only
\* when the existing entries shall not be tooted
SetupFile(old_posts, include, now) ==
    SaveConfig([updated |-> IF old_posts THEN NoUpdated ELSE now,
                include_images |-> include])

runLocal == <<entries, entry, images, imgIdx, media_ids>>
history  == <<yielded, mediaPosts, statusPosts, raised>>
runStart == <<fileAtStart, startUpdated>>
past     == <<runs, everDry, everFetch, didSetup>>
msVars   == <<msPc, msTemplate, msEntry, msMax, msResult>>
ciVars   == <<ciPc, ciOutcomes, ciResult>>
clVars   == <<clPc, clText, clResult>>
geVars   == <<gePc, geGenerator, geEntry, geResult>>
pureVars == <<msVars, ciVars, clVars, geVars>>
mainVars == <<feeds, file, posted, pc, dry_run, config, newest_post, feedIdx,
              runLocal, history, runStart, past, saves, candidates>>

\* no run of main() has started
NoRun ==
    /\ posted = [e \in AllEntries |-> 0]
    /\ pc = "idle"
    /\ dry_run = FALSE
    /\ config = [updated |-> MinYear, include_images |-> FALSE]
    /\ newest_post = MinYear
    /\ feedIdx = 1
    /\ entries = <<>>
    /\ entry = NoEntry
    /\ images = <<>>
    /\ imgIdx = 1
    /\ media_ids = <<>>
    /\ yielded = <<>>
    /\ mediaPosts = 0
    /\ statusPosts = 0
    /\ raised = "none"
    /\ fileAtStart = file
    /\ startUpdated = MinYear
    /\ everDry = FALSE
    /\ everFetch = FALSE
    /\ didSetup = FALSE
    /\ saves = 0

MainInit ==
    /\ feeds = [f \in Feeds |-> <<>>]
    /\ file \in {NoFile} \cup
                [isfile : {TRUE}, updated : {IsoFormat(MinYear)}, include_images : BOOLEAN]
    /\ runs = 0
    /\ candidates = NumUrls
    /\ NoRun

\* make_status is not being looked at
MsIdle ==
    /\ msPc = "idle"
    /\ msTemplate = <<>>
    /\ msEntry = [title |-> <<>>, url |-> <<>>, content |-> <<>>, summary |-> <<>>]
    /\ msMax = 0
    /\ msResult = [raised |-> FALSE, text |-> <<>>]

\* collect_images is not being looked at
CiIdle ==
    /\ ciPc = "idle"
    /\ ciOutcomes = <<>>
    /\ ciResult = [images |-> <<>>, raised |-> FALSE, requests |-> 0]

\* cleanup is not being looked at
ClIdle ==
    /\ clPc = "idle"
    /\ clText = <<>>
    /\ clResult = [once |-> <<>>, twice |-> <<>>]

\* get_entry is not being looked at
GeIdle ==
    /\ gePc = "idle"
    /\ geGenerator = "None"
    /\ geEntry = [id |-> 0, links |-> <<>>, tags |-> <<>>]
    /\ geResult = [raised |-> FALSE, url |-> 0, hashtags |-> <<>>]

Init == MainInit /\ MsIdle /\ CiIdle /\ ClIdle /\ GeIdle

\* The environment: between runs a feed gains an entry, at the top of its document
AddEntry ==
    /\ pc = "idle"
    /\ NumEntries(feeds) < MaxEntries
    /\ \E f \in Feeds, t \in TimeTexts :
          /\ ~InFeed([feed |-> f, updated |-> t])
          /\ feeds' = [feeds EXCEPT ![f] = <<t>> \o @]
    /\ UNCHANGED <<file, posted, pc, dry_run, config, newest_post, feedIdx,
                   runLocal, history, runStart, past>>
    /\ UNCHANGED <<saves, candidates, pureVars>>

\* lines 66-82: main up to the loop.  setup() runs when the file is missing
\* (line 70), whatever args.dry_run is, and saves a file (line 329).
StartRun ==
    /\ pc = "idle"
    /\ runs < MaxRuns
    /\ \E d \in BOOLEAN :
          /\ dry_run' = d
          /\ everDry' = (everDry \/ d)
    /\ fileAtStart' = file
    /\ IF ~file.isfile
       THEN /\ \E old_posts \in BOOLEAN, include \in BOOLEAN, now \in SetupTimes :
                   file' = SetupFile(old_posts, include, now)
            /\ didSetup' = TRUE
            /\ saves' = 1
       ELSE /\ UNCHANGED <<file, didSetup>>
            /\ saves' = 0
    /\ config' = ReadConfig(file')
    /\ newest_post' = config'.updated
    /\ startUpdated' = config'.updated
    /\ feedIdx' = 1
    /\ pc' = "feed"
    /\ runs' = runs + 1
    /\ UNCHANGED <<feeds, posted, runLocal, history, everFetch>>
    /\ UNCHANGED <<candidates, pureVars>>

\* lines 83-84 and 184-190: the outer loop takes the next feed; the first
\* next() on the generator fetches, filters and sorts it
FetchFeed ==
    /\ pc = "feed"
    /\ feedIdx <= NumFeeds
    /\ entries' = GetFeed(feeds[feedIdx], LastUpdateArg)
    /\ pc' = "yield"
    /\ UNCHANGED <<feeds, file, posted, dry_run, config, newest_post, feedIdx,
                   entry, images, imgIdx, media_ids, history, runStart, past>>
    /\ UNCHANGED <<saves, candidates, pureVars>>

\* lines 191-193 and 90: the generator yields get_entry(...) of the next entry,
\* its media fetched now; main folds its timestamp into newest_post
YieldEntry ==
    /\ pc = "yield"
    /\ entries /= <<>>
    /\ \E outcomes \in [1..candidates -> Outcomes] :
          LET got == EntryImages(config.include_images, outcomes)
              e   == [feed |-> feedIdx, updated |-> Head(entries)]
          IN  /\ images' = got.images
              /\ entry' = e
              /\ IF got.raised
                 THEN /\ pc' = "aborted"
                      /\ raised' = "fetch"
                      /\ everFetch' = TRUE
                      /\ UNCHANGED <<yielded, newest_post>>
                 ELSE /\ pc' = "media"
                      /\ UNCHANGED <<raised, everFetch>>
                      /\ yielded' = Append(yielded, e)
                      /\ newest_post' = NewestPost(newest_post, DateutilParse(e.updated))
    /\ entries' = Tail(entries)
    /\ imgIdx' = 1
    /\ media_ids' = <<>>
    /\ mediaPosts' = 0
    /\ statusPosts' = 0
    /\ UNCHANGED <<feeds, file, posted, dry_run, config, feedIdx,
                   runStart, runs, everDry, didSetup>>
    /\ UNCHANGED <<saves, candidates, pureVars>>

\* the generator is exhausted: the outer loop goes to the next feed
EndFeed ==
    /\ pc = "yield"
    /\ entries = <<>>
    /\ feedIdx' = feedIdx + 1
    /\ pc' = "feed"
    /\ UNCHANGED <<feeds, file, posted, dry_run, config, newest_post, runLocal,
                   history, runStart, past>>
    /\ UNCHANGED <<saves, candidates, pureVars>>

\* lines 103-107: one turn of the media loop.  media_post returns a media
\* dict, returns a dict holding "error", or raises; release_conn follows the
\* call, so it is not reached when the call raises.
MediaPost ==
    /\ pc = "media"
    /\ imgIdx <= Len(images)
    /\ mediaPosts' = mediaPosts + 1
    /\ \E result \in {"media", "error", "raise"} :
          IF result = "raise"
          THEN /\ pc' = "aborted"
               /\ raised' = "media_post"
               /\ UNCHANGED <<images, imgIdx, media_ids>>
          ELSE /\ images' = [images EXCEPT ![imgIdx].released = ReleaseConn(@),
                                            ![imgIdx].upload = result]
               /\ media_ids' = IF NoError(result)
                               THEN Append(media_ids, images[imgIdx].url)
                               ELSE media_ids
               /\ imgIdx' = imgIdx + 1
               /\ UNCHANGED <<pc, raised>>
    /\ UNCHANGED <<feeds, file, posted, dry_run, config, newest_post, feedIdx,
                   entries, entry, yielded, statusPosts, runStart,
                   past>>
    /\ UNCHANGED <<saves, candidates, pureVars>>

\* line 108, entry.pop("images"), and the end of the loop body: the handles,
\* media_ids and the loop position of this entry are dead from here on
EndEntry ==
    /\ images' = <<>>
    /\ imgIdx' = 1
    /\ media_ids' = <<>>
    /\ mediaPosts' = 0
    /\ pc' = "yield"

\* lines 108-113: the media loop is over; in a trial run the entry is not tooted
SkipPost ==
    /\ pc = "media"
    /\ imgIdx > Len(images)
    /\ dry_run
    /\ EndEntry
    /\ UNCHANGED <<feeds, file, posted, dry_run, config, newest_post, feedIdx,
                   entries, entry, yielded, statusPosts, raised,
                   runStart, past>>
    /\ UNCHANGED <<saves, candidates, pureVars>>

\* lines 108-115: the media loop is over; status_post returns, or raises, and
\* nothing in main catches what it raises
StatusPost ==
    /\ pc = "media"
    /\ imgIdx > Len(images)
    /\ ~dry_run
    /\ statusPosts' = statusPosts + 1
    /\ \E result \in {"status", "raise"} :
          IF result = "raise"
          THEN /\ pc' = "aborted"
               /\ raised' = "status_post"
               /\ UNCHANGED <<posted, images, imgIdx, media_ids, mediaPosts>>
          ELSE /\ EndEntry
               /\ posted' = [posted EXCEPT ![entry] = @ + 1]
               /\ UNCHANGED raised
    /\ UNCHANGED <<feeds, file, dry_run, config, newest_post, feedIdx, entries,
                   entry, yielded, runStart, past>>
    /\ UNCHANGED <<saves, candidates, pureVars>>

\* lines 117-122: after the last feed the watermark is set, and saved unless
\* the run is a trial run
Finish ==
    /\ pc = "feed"
    /\ FeedsExhausted(feedIdx)
    /\ config' = [config EXCEPT !.updated = IsoFormat(newest_post)]
    /\ file' = IF dry_run THEN file ELSE SaveConfig(config')
    /\ saves' = IF dry_run THEN saves ELSE saves + 1
    /\ pc' = "done"
    /\ UNCHANGED <<feeds, posted, dry_run, newest_post, feedIdx, runLocal,
                   history, runStart, past>>
    /\ UNCHANGED <<candidates, pureVars>>

\* The process ends: main returned (line 338), or the exception that nothing
\* caught ended it.  Nothing of the run is left but the file and the posts.
Exit ==
    /\ pc \in {"done", "aborted"}
    /\ pc' = "idle"
    /\ dry_run' = FALSE
    /\ config' = [updated |-> MinYear, include_images |-> FALSE]
    /\ newest_post' = MinYear
    /\ feedIdx' = 1
    /\ entries' = <<>>
    /\ entry' = NoEntry
    /\ images' = <<>>
    /\ imgIdx' = 1
    /\ media_ids' = <<>>
    /\ yielded' = <<>>
    /\ mediaPosts' = 0
    /\ statusPosts' = 0
    /\ raised' = "none"
    /\ fileAtStart' = file
    /\ startUpdated' = MinYear
    /\ saves' = 0
    /\ UNCHANGED <<feeds, file, posted, past>>
    /\ UNCHANGED <<candidates, pureVars>>

Next ==
    \/ AddEntry
    \/ StartRun
    \/ FetchFeed
    \/ YieldEntry
    \/ EndFeed
    \/ MediaPost
    \/ SkipPost
    \/ StatusPost
    \/ Finish
    \/ Exit

Spec == Init /\ [][Next]_vars

\* One run over feeds whose entries carry up to MaxMedia candidate URLs each,
\* images included: the configuration file exists, feed 1 has an entry, and
\* a second entry may come before the run starts.
InitMedia ==
    /\ feeds = [f \in Feeds |-> IF f = 1 THEN << <<1, 0>> >> ELSE <<>>]
    /\ file = [isfile |-> TRUE, updated |-> IsoFormat(MinYear), include_images |-> TRUE]
    /\ runs = MaxRuns - 1
    /\ candidates = MaxMedia
    /\ NoRun
    /\ MsIdle
    /\ CiIdle
    /\ ClIdle
    /\ GeIdle

SpecMedia == InitMedia /\ [][Next]_vars

\* ------------------------------------------------------------ make_status
\* A text is a sequence of characters; a template is a sequence of tokens, a
\* token being a replacement field or a literal character.
Fields == {"{title}", "{url}", "{content}", "{summary}"}

RECURSIVE Concat(_)
Concat(parts) == IF parts = <<>> THEN <<>> ELSE Head(parts) \o Concat(Tail(parts))

Field(e, token) ==
    CASE token = "{title}"   -> e.title
      [] token = "{url}"     -> e.url
      [] token = "{content}" -> e.content
      [] token = "{summary}" -> e.summary

\* template.format(**entry), lines 129, 140, 148
Format(tpl, e) ==
    Concat([i \in 1..Len(tpl) |-> IF tpl[i] \in Fields THEN Field(e, tpl[i]) ELSE <<tpl[i]>>])

\* line 21; shorten (line 286) writes it for "\n" and restores "\n" afterwards
NEWLINE == "P"
Replace(text, old, new) == [i \in 1..Len(text) |-> IF text[i] = old THEN new ELSE text[i]]

\* textwrap.shorten's placeholder, and placeholder.lstrip()
Placeholder       == <<" ", "[", ".", ".", ".", "]">>
PlaceholderLStrip == <<"[", ".", ".", ".", "]">>

\* text.strip().split(): the maximal runs of characters that are not whitespace
RECURSIVE SplitWords(_, _)
SplitWords(text, word) ==
    LET done == IF word = <<>> THEN <<>> ELSE <<word>>
    IN  IF text = <<>> THEN done
        ELSE IF Head(text) = " " THEN done \o SplitWords(Tail(text), <<>>)
        ELSE SplitWords(Tail(text), Append(word, Head(text)))

\* TextWrapper._split of ' '.join(words): the words and the blanks between them
Chunks(words) ==
    IF words = <<>> THEN <<>>
    ELSE [i \in 1..(2 * Len(words) - 1) |->
             IF i % 2 = 1 THEN words[(i + 1) \div 2] ELSE <<" ">>]

\* chunk.strip() == ''
Blank(chunk) == \A i \in 1..Len(chunk) : chunk[i] = " "

Front(seq) == SubSeq(seq, 1, Len(seq) - 1)

\* _wrap_chunks, the inner loop: how many chunks fit the width, from chunk i on
RECURSIVE TakeCount(_, _, _, _)
TakeCount(chunks, i, cur_len, width) ==
    IF i <= Len(chunks) /\ cur_len + Len(chunks[i]) <= width
    THEN TakeCount(chunks, i + 1, cur_len + Len(chunks[i]), width)
    ELSE i - 1

\* _wrap_chunks with max_lines = 1, the line not being the whole text: chunks
\* are dropped from its end until the placeholder fits after a word
RECURSIVE Truncate(_, _)
Truncate(line, width) ==
    IF line = <<>> THEN PlaceholderLStrip
    ELSE IF ~Blank(line[Len(line)]) /\ Len(Concat(line)) + Len(Placeholder) <= width
         THEN Concat(line) \o Placeholder
         ELSE Truncate(Front(line), width)

\* _wrap_chunks with max_lines = 1, width >= 1: the one line of the result
WrapChunks(chunks, width) ==
    LET n     == TakeCount(chunks, 1, 0, width)
        taken == SubSeq(chunks, 1, n)
        long  == n < Len(chunks) /\ Len(chunks[n + 1]) > width
        \* _handle_long_word: the part of a too long word that still fits
        line1 == IF long
                 THEN Append(taken, SubSeq(chunks[n + 1], 1, width - Len(Concat(taken))))
                 ELSE taken
        \* drop_whitespace: a blank chunk at the end of the line goes
        line2 == IF line1 /= <<>> /\ Blank(line1[Len(line1)]) THEN Front(line1) ELSE line1
        whole == /\ ~long
                 /\ \/ n = Len(chunks)
                    \/ n = Len(chunks) - 1 /\ Blank(chunks[Len(chunks)])
    IN  IF line2 = <<>> THEN <<>>
        ELSE IF whole /\ Len(Concat(line2)) <= width THEN Concat(line2)
        ELSE Truncate(line2, width)

\* textwrap.shorten(text, width): ValueError when the width is not positive or
\* the placeholder alone does not fit it
TextwrapShorten(text, width) ==
    IF width <= 0 \/ Len(PlaceholderLStrip) > width
    THEN [raised |-> TRUE, text |-> <<>>]
    ELSE [raised |-> FALSE, text |-> WrapChunks(Chunks(SplitWords(text, <<>>)), width)]

\* shorten, lines 283-286
Shorten(text, max_length) ==
    LET r == TextwrapShorten(Replace(text, "\n", NEWLINE), max_length)
    IN  [raised |-> r.raised, text |-> Replace(r.text, NEWLINE, "\n")]

\* lines 137-140: the budget, max_length less the status with both fields empty
MaxContentLength(tpl, e, max_length) ==
    max_length - Len(Format(tpl, [e EXCEPT !.content = <<>>, !.summary = <<>>]))

\* make_status, lines 125-150
MakeStatus(tpl, e, max_length) ==
    LET status  == Format(tpl, e)
        budget  == MaxContentLength(tpl, e, max_length)
        content == Shorten(e.content, budget)
        summary == Shorten(e.summary, budget)
    IN  IF Len(status) < max_length THEN [raised |-> FALSE, text |-> status]
        ELSE IF content.raised \/ summary.raised THEN [raised |-> TRUE, text |-> <<>>]
        ELSE [raised |-> FALSE,
              text |-> Format(tpl, [e EXCEPT !.content = content.text,
                                             !.summary = summary.text])]

\* make_status on its own, over templates, entries and lengths
Alphabet == {"a", " ", "\n"}

\* what cleanup (lines 247-251) leaves of a text: no blank at either end, no
\* two blanks in a row, no blank before a newline, no three newlines in a row
Cleaned(t) ==
    /\ t /= <<>> => (t[1] \notin {" ", "\n"} /\ t[Len(t)] \notin {" ", "\n"})
    /\ \A i \in 1..(Len(t) - 1) : ~(t[i] = " " /\ t[i + 1] \in {" ", "\n"})
    /\ \A i \in 1..(Len(t) - 2) : ~(t[i] = "\n" /\ t[i + 1] = "\n" /\ t[i + 2] = "\n")

Texts == {t \in UNION {[1..n -> Alphabet] : n \in 0..MaxText} : Cleaned(t)}

Templates ==
    { <<"{title}", " ", "{url}">>,          \* the template setup writes, line 325
      <<"{title}", " ", "{content}">>,
      <<"{summary}", " ", "{url}">>,
      <<"{content}", " ", "{summary}">> }

\* an entry carries a text as its content, as its summary, or as both
EntriesOf(t) ==
    {[title |-> <<"T">>, url |-> <<"u">>, content |-> c, summary |-> m] :
        c \in {<<>>, t}, m \in {<<>>, t}}

InitStatus ==
    /\ MainInit
    /\ ~file.isfile
    /\ msPc = "call"
    /\ msTemplate \in Templates
    /\ \E t \in Texts : msEntry \in EntriesOf(t)
    /\ msMax \in 1..MaxLength
    /\ msResult = [raised |-> FALSE, text |-> <<>>]
    /\ CiIdle
    /\ ClIdle
    /\ GeIdle

MakeStatusCall ==
    /\ msPc = "call"
    /\ msResult' = MakeStatus(msTemplate, msEntry, msMax)
    /\ msPc' = "returned"
    /\ UNCHANGED <<msTemplate, msEntry, msMax, mainVars, ciVars, clVars, geVars>>

NextStatus == MakeStatusCall

SpecStatus == InitStatus /\ [][NextStatus]_vars

\* --------------------------------------------- collect_images on its own
\* over every sequence of outcomes of up to MaxUrls candidate URLs
FetchOutcomes == Outcomes \cup {"video/"}

InitImages ==
    /\ MainInit
    /\ ~file.isfile
    /\ MsIdle
    /\ ciPc = "call"
    /\ ciOutcomes \in UNION {[1..n -> FetchOutcomes] : n \in 0..MaxUrls}
    /\ ciResult = [images |-> <<>>, raised |-> FALSE, requests |-> 0]
    /\ ClIdle
    /\ GeIdle

CollectImagesCall ==
    /\ ciPc = "call"
    /\ ciResult' = CollectImages(ciOutcomes)
    /\ ciPc' = "returned"
    /\ UNCHANGED <<ciOutcomes, mainVars, msVars, clVars, geVars>>

NextImages == CollectImagesCall

SpecImages == InitImages /\ [][NextImages]_vars

\* ------------------------------------------------------ get_entry.cleanup
\* A text given to cleanup is a sequence of tokens: a letter, a space, a
\* non-breaking space, a newline, a tag, or a tag written with character
\* references (&lt;b&gt;), which the HTML parser reads as the text "<b>".
NBSP   == "nbsp"
Tag    == "<b>"
EscTag == "&lt;b&gt;"

\* lines 242-246: the text parsed as HTML and get_text(): the tags go, the
\* character references become the characters they name
GetText(text) ==
    LET nodes == SelectSeq(text, LAMBDA c : c /= Tag)
    IN  [i \in 1..Len(nodes) |-> IF nodes[i] = EscTag THEN Tag ELSE nodes[i]]

\* the text after the run of c it starts with
RECURSIVE SkipRun(_, _)
SkipRun(text, c) ==
    IF text /= <<>> /\ Head(text) = c THEN SkipRun(Tail(text), c) ELSE text

\* line 247: re.sub("\xa0+", " ", text)
RECURSIVE SubNbsp(_)
SubNbsp(text) ==
    IF text = <<>> THEN <<>>
    ELSE IF Head(text) = NBSP THEN <<" ">> \o SubNbsp(SkipRun(text, NBSP))
    ELSE <<Head(text)>> \o SubNbsp(Tail(text))

\* line 248: re.sub("  +", " ", text)
RECURSIVE SubSpaces(_)
SubSpaces(text) ==
    IF text = <<>> THEN <<>>
    ELSE IF Head(text) = " " THEN <<" ">> \o SubSpaces(SkipRun(text, " "))
    ELSE <<Head(text)>> \o SubSpaces(Tail(text))

\* line 249: re.sub(" +\n", "\n", text)
RECURSIVE SubSpaceNewline(_)
SubSpaceNewline(text) ==
    IF text = <<>> THEN <<>>
    ELSE LET rest == SkipRun(text, " ")
         IN  IF Head(text) = " " /\ rest /= <<>> /\ Head(rest) = "\n"
             THEN <<"\n">> \o SubSpaceNewline(Tail(rest))
             ELSE <<Head(text)>> \o SubSpaceNewline(Tail(text))

\* line 250: re.sub("\n\n\n+", "\n\n", text)
RECURSIVE SubNewlines(_)
SubNewlines(text) ==
    IF text = <<>> THEN <<>>
    ELSE IF Len(text) >= 3 /\ text[1] = "\n" /\ text[2] = "\n" /\ text[3] = "\n"
         THEN <<"\n", "\n">> \o SubNewlines(SkipRun(text, "\n"))
         ELSE <<Head(text)>> \o SubNewlines(Tail(text))

\* str.strip(): the whitespace at both ends goes
WhiteSpace == {" ", "\n", NBSP}

RECURSIVE LStrip(_)
LStrip(text) ==
    IF text /= <<>> /\ Head(text) \in WhiteSpace THEN LStrip(Tail(text)) ELSE text

RECURSIVE RStrip(_)
RStrip(text) ==
    IF text /= <<>> /\ text[Len(text)] \in WhiteSpace
    THEN RStrip(SubSeq(text, 1, Len(text) - 1))
    ELSE text

\* cleanup, lines 241-251 (no element of class read-more in the text)
Cleanup(text) ==
    RStrip(LStrip(SubNewlines(SubSpaceNewline(SubSpaces(SubNbsp(GetText(text)))))))

CleanupTokens == {"a", " ", NBSP, "\n", Tag, EscTag}

InitCleanup ==
    /\ MainInit
    /\ ~file.isfile
    /\ MsIdle
    /\ CiIdle
    /\ GeIdle
    /\ clPc = "call"
    /\ clText \in UNION {[1..n -> CleanupTokens] : n \in 0..MaxChars}
    /\ clResult = [once |-> <<>>, twice |-> <<>>]

CleanupCall ==
    /\ clPc = "call"
    /\ clResult' = [once |-> Cleanup(clText), twice |-> Cleanup(Cleanup(clText))]
    /\ clPc' = "returned"
    /\ UNCHANGED <<clText, mainVars, msVars, ciVars, geVars>>

NextCleanup == CleanupCall

SpecCleanup == InitCleanup /\ [][NextCleanup]_vars

\* --------------------------------------------------------------- get_entry
\* An entry given to get_entry: its id, its links ([rel, type, href], the
\* href of a link being its place in the list, the id being 0) and the terms
\* of its tags.
Rels  == {"alternate", "replies"}
Types == {"text/html", "application/json"}
Terms == {<<"a">>, <<"a", " ", "b">>, <<"a", ".", "b">>, <<"a", "-", "b">>}
Generators == {"None", "wordpress"}

LinkLists ==
    UNION {{[i \in 1..n |-> [rel |-> r[i], type |-> t[i], href |-> i]] :
               r \in [1..n -> Rels], t \in [1..n -> Types]} : n \in 0..MaxLinks}

TagLists == UNION {[1..n -> Terms] : n \in 0..MaxTags}

\* str.replace(old, ""): the character removed
Remove(text, old) == SelectSeq(text, LAMBDA c : c /= old)

\* lines 255-256 (and 268-269): the hashtag of a tag term
Hashtag(term) == <<"#">> \o Remove(Remove(Replace(term, " ", "_"), "."), "-")

\* line 276: " ".join(hashtags)
RECURSIVE JoinBlank(_)
JoinBlank(parts) ==
    IF parts = <<>> THEN <<>>
    ELSE IF Len(parts) = 1 THEN parts[1]
    ELSE parts[1] \o <<" ">> \o JoinBlank(Tail(parts))

\* lines 261-267: the canonical URL
CanonicalUrl(e, generator) ==
    LET alternates == SelectSeq(e.links, LAMBDA l : l.rel = "alternate")
        links      == IF Len(alternates) > 1
                      THEN SelectSeq(e.links, LAMBDA l : l.type = "text/html")
                      ELSE alternates
    IN  IF generator = "wordpress" /\ links /= <<>> THEN links[1].href ELSE e.id

\* lines 253-256 and 268-269: the hashtags list.  In the wordpress branch the
\* loop variable `tag` is read again after the loop: the last tag's hashtag
\* is appended once more.
Hashtags(e, generator) ==
    LET hashtags == [i \in 1..Len(e.tags) |-> Hashtag(e.tags[i])]
    IN  IF generator = "wordpress" /\ e.tags /= <<>>
        THEN Append(hashtags, Hashtag(e.tags[Len(e.tags)]))
        ELSE hashtags

\* get_entry, lines 240-280, its url and hashtags fields.  With no tag the
\* loop of line 254 never binds `tag`, and line 268 raises UnboundLocalError.
GetEntry(e, generator) ==
    IF generator = "wordpress" /\ e.tags = <<>>
    THEN [raised |-> TRUE, url |-> 0, hashtags |-> <<>>]
    ELSE [raised |-> FALSE,
          url |-> CanonicalUrl(e, generator),
          hashtags |-> JoinBlank(Hashtags(e, generator))]

InitEntry ==
    /\ MainInit
    /\ ~file.isfile
    /\ MsIdle
    /\ CiIdle
    /\ ClIdle
    /\ gePc = "call"
    /\ geGenerator \in Generators
    /\ geEntry \in [id : {0}, links : LinkLists, tags : TagLists]
    /\ geResult = [raised |-> FALSE, url |-> 0, hashtags |-> <<>>]

GetEntryCall ==
    /\ gePc = "call"
    /\ geResult' = GetEntry(geEntry, geGenerator)
    /\ gePc' = "returned"
    /\ UNCHANGED <<geGenerator, geEntry, mainVars, msVars, ciVars, clVars>>

NextEntry == GetEntryCall

SpecEntry == InitEntry /\ [][NextEntry]_vars

\* ------------------------------------------------------------ the claims
Range(seq) == {seq[i] : i \in 1..Len(seq)}

RECURSIVE MaxUpdated(_, _)
MaxUpdated(start, seq) ==
    IF seq = <<>> THEN start
    ELSE MaxUpdated(Max(start, DateutilParse(Head(seq).updated)), Tail(seq))

\* the watermark the file holds: what read_config would return for it
Persisted(f) == IF f.isfile THEN ReadConfig(f).updated ELSE MinYear

C1_AtEnd ==
    pc = "done" =>
        /\ DateutilParse(config.updated) >= startUpdated
        /\ DateutilParse(config.updated) = MaxUpdated(startUpdated, yielded)
        /\ ~dry_run => file.updated = config.updated

\* C1: a run that reaches the end writes back the maximum of the watermark it
\* read and the timestamps of all the entries get_feed yielded in it, over
\* all feeds (and saves it unless it is a trial run); over any sequence of
\* runs the persisted watermark never decreases.
C1_WatermarkIsMax ==
    /\ [] C1_AtEnd
    /\ [][Persisted(file') >= Persisted(file)]_vars

C1_Witness ==
    /\ pc = "done"
    /\ ~dry_run
    /\ Len(yielded) >= 2
    /\ yielded[1].feed /= yielded[2].feed
    /\ DateutilParse(yielded[1].updated) > DateutilParse(yielded[2].updated)
    /\ Persisted(file) > startUpdated

\* C2: in a run an entry of a feed is yielded exactly when its timestamp is
\* strictly after the watermark read at the start of the run, for every
\* feed, whatever was processed before: nothing else is ever yielded, and
\* once the loop has left a feed every such entry of it was yielded.
C2_YieldedIffNewer ==
    /\ \A e \in Range(yielded) : InFeed(e) /\ DateutilParse(e.updated) > startUpdated
    /\ \A e \in AllEntries :
          (/\ InFeed(e)
           /\ pc \in {"feed", "yield", "media", "done"}
           /\ e.feed < feedIdx)
          => (e \in Range(yielded) <=> DateutilParse(e.updated) > startUpdated)

C2_Witness ==
    /\ pc = "done"
    /\ \E e \in AllEntries, n \in AllEntries :
          /\ InFeed(e) /\ DateutilParse(e.updated) = startUpdated
          /\ e \notin Range(yielded)
          /\ n.feed > e.feed
          /\ InFeed(n) /\ DateutilParse(n.updated) = startUpdated + 1
          /\ n \in Range(yielded)

\* C3: over any sequence of non-dry runs, a run possibly cut short by an
\* exception of the posting client, status_post is called at most once for
\* an entry.
C3_NeverReposted ==
    (~everDry /\ ~everFetch) => \A e \in AllEntries : posted[e] <= 1

\* C4: over any sequence of non-dry runs no entry is skipped for good: when a
\* run completes, every entry that appeared in a feed since the watermark
\* was persisted has been posted.  (The watermark never decreases, so an
\* entry a completed run has left unposted is not eligible in any later run.)
C4_NeverSkipped ==
    (pc = "done" /\ ~dry_run /\ ~everDry /\ ~everFetch /\ ~didSetup)
    => \A e \in AllEntries : InFeed(e) => posted[e] >= 1

\* C5: when the template rendered with content and summary empty is shorter
\* than max_length, make_status returns a status shorter than max_length.
C5_StatusFits ==
    (msPc = "returned" /\ MaxContentLength(msTemplate, msEntry, msMax) > 0)
    => (~msResult.raised /\ Len(msResult.text) < msMax)

\* C6: every handle collect_images kept is released exactly once on every
\* path out of the entry's processing: after the media loop, and when a
\* call raised.
C6_ReleasedExactlyOnce ==
    /\ \A i \in 1..Len(images) : images[i].released <= 1
    /\ (pc = "aborted" \/ (pc = "media" /\ imgIdx > Len(images)))
       => \A i \in 1..Len(images) : images[i].released = 1

\* C7: in a trial run neither media_post nor status_post is called.
C7_DryRunCallsNothing ==
    dry_run => (mediaPosts = 0 /\ statusPosts = 0)

\* C8: a status_post that fails does not abort the run.
C8_PostFailureContinues ==
    raised = "status_post" => pc /= "aborted"

\* C9: a trial run never changes the configuration file, whatever happens in
\* it, the file being missing at its start included.
C9_DryRunKeepsFile ==
    (pc /= "idle" /\ dry_run) => file = fileAtStart

\* C10: the entries get_feed yields for a feed are non-decreasing in the
\* 'updated' value they carry.
C10_YieldedInOrder ==
    \A i \in 1..Len(yielded), j \in 1..Len(yielded) :
        (i < j /\ yielded[i].feed = yielded[j].feed)
        => DateutilParse(yielded[i].updated) <= DateutilParse(yielded[j].updated)

\* the content types collect_images may keep
MediaTypes == {"image/", "video/"}

\* C11: collect_images returns at most MAX_IMAGES handles, each of a
\* content-type starting with image/ or video/, and issues no GET after the
\* one that gave it the MAX_IMAGES-th handle.
C11_CappedMediaOnly ==
    ciPc = "returned" =>
        /\ Len(ciResult.images) <= MAX_IMAGES
        /\ \A k \in 1..Len(ciResult.images) : ciResult.images[k].ctype \in MediaTypes
        /\ Len(ciResult.images) = MAX_IMAGES
           => ciResult.requests = ciResult.images[MAX_IMAGES].url

C11_Witness ==
    /\ ciPc = "returned"
    /\ Len(ciResult.images) = MAX_IMAGES
    /\ ciResult.requests < Len(ciOutcomes)
    /\ ciOutcomes[Len(ciOutcomes)] \in MediaTypes
    /\ \E k \in 1..MAX_IMAGES : ciResult.images[k].ctype = "video/"
    /\ \E i \in 1..ciResult.requests : ciOutcomes[i] = "text/"

\* C12: when the GETs that fail fail with an HTTPError, collect_images
\* returns: a failed candidate is skipped, the candidates after it are
\* requested in order until the cap is reached, and the handles kept are
\* those of the media candidates requested, in candidate order.
C12_FailedFetchSkipped ==
    (ciPc = "returned" /\ \A i \in 1..Len(ciOutcomes) : ciOutcomes[i] /= "KeyError") =>
        LET media == {i \in 1..Len(ciOutcomes) : ciOutcomes[i] \in MediaTypes}
            n     == Len(ciResult.images)
            last  == IF n = MAX_IMAGES THEN ciResult.images[n].url ELSE Len(ciOutcomes)
        IN  /\ ~ciResult.raised
            /\ ciResult.requests = last
            /\ \A k \in 1..n : ciResult.images[k].url \in media
            /\ \A k \in 1..(n - 1) : ciResult.images[k].url < ciResult.images[k + 1].url
            /\ \A i \in media : i <= last => \E k \in 1..n : ciResult.images[k].url = i

C12_Witness ==
    /\ ciPc = "returned"
    /\ ~ciResult.raised
    /\ \E i \in 2..(Len(ciOutcomes) - 1) :
          /\ ciOutcomes[i] = "HTTPError"
          /\ \E k \in 1..(Len(ciResult.images) - 1) :
                /\ ciResult.images[k].url < i
                /\ ciResult.images[k + 1].url > i

\* the media_ids the uploads of the current entry's handles make: the result of
\* every upload that reported no error, in handle order
UploadedMedia ==
    LET ok == SelectSeq(images, LAMBDA h : h.upload = "media")
    IN  [k \in 1..Len(ok) |-> ok[k].url]

C13_AtEntry ==
    ~dry_run =>
        /\ statusPosts <= 1
        /\ pc = "media" =>
              /\ mediaPosts = imgIdx - 1
              /\ \A i \in 1..Len(images) : (images[i].upload /= "none") <=> (i < imgIdx)
        /\ (pc = "media" /\ imgIdx > Len(images)) =>
              /\ mediaPosts = Len(images)
              /\ statusPosts = 0
              /\ media_ids = UploadedMedia
        /\ (pc \in {"yield", "feed", "done"} /\ entry /= NoEntry) => statusPosts = 1

\* C13: in a non-dry run, for an entry main processes, media_post is called
\* once per kept handle, every such call before the entry's status_post;
\* status_post is called once for the entry, with media_ids being exactly the
\* results of this entry's uploads that reported no error, in handle order.
C13_UploadsThenOnePost ==
    /\ [] C13_AtEntry
    /\ [][(mediaPosts' = mediaPosts + 1) => (statusPosts = 0 /\ statusPosts' = 0)]_vars
    /\ [][(statusPosts' = statusPosts + 1)
           => (pc = "media" /\ imgIdx > Len(images) /\ (~dry_run => media_ids = UploadedMedia))]_vars

C13_Witness ==
    /\ ~dry_run
    /\ pc = "media"
    /\ imgIdx > Len(images)
    /\ Len(yielded) = 2
    /\ Len(images) = MAX_IMAGES
    /\ images[1].upload = "media"
    /\ images[2].upload = "error"
    /\ images[3].upload = "media"
    /\ media_ids = <<images[1].url, images[3].url, images[4].url>>

\* the handles of the current entry that are kept and not yet released
OpenHandles == {i \in 1..Len(images) : images[i].released = 0}

\* C20: in a run where no call has raised, at most MAX_IMAGES media handles
\* are open at any point, and none is open when status_post is called (or
\* skipped), when the generator is asked for the next entry, whose media
\* are fetched only then, and when the next feed is fetched.
C20_OpenHandlesBounded ==
    raised = "none" =>
        /\ Cardinality(OpenHandles) <= MAX_IMAGES
        /\ (pc = "media" /\ imgIdx > Len(images)) => OpenHandles = {}
        /\ pc \in {"yield", "feed", "done"} => OpenHandles = {}

C20_Witness ==
    /\ raised = "none"
    /\ pc = "media"
    /\ candidates > MAX_IMAGES
    /\ Len(yielded) = 2
    /\ Cardinality(OpenHandles) = MAX_IMAGES

\* C14: a second run over the unchanged feeds, started from the watermark the
\* first run produced (saved as save_config saves it, read as read_config
\* reads it), gets no entry from get_feed, for every feed.
C14_SecondRunYieldsNothing ==
    pc = "done" =>
        \A f \in Feeds : GetFeed(feeds[f], ReadConfig(SaveConfig(config)).updated) = <<>>

C14_Witness ==
    /\ pc = "done"
    /\ Len(yielded) >= 2
    /\ yielded[1].feed /= yielded[2].feed
    /\ DateutilParse(yielded[1].updated) /= DateutilParse(yielded[2].updated)
    /\ UpdatedParsed(yielded[1].updated) = UpdatedParsed(yielded[2].updated)

\* C18: when the status_post of an entry fails, the watermark the run leaves
\* in the file is at least that entry's timestamp.
C18_FailedPostCounts ==
    (pc = "aborted" /\ raised = "status_post")
    => Persisted(file) >= DateutilParse(entry.updated)

\* every entry of every feed that get_feed had to yield in this run was yielded
AllAttempted ==
    \A e \in AllEntries :
        (InFeed(e) /\ Eligible(e.updated, startUpdated)) => e \in Range(yielded)

\* C19 as stated, for every run: the file is written at most once, only after
\* every entry of every feed was attempted, and a run an exception ended
\* leaves the file as it was when the run started.
C19_AnyRunWritesOnceAtEnd ==
    /\ [](saves <= 1)
    /\ [](pc = "aborted" => file = fileAtStart)
    /\ [][(saves' > saves) => (pc = "feed" /\ AllAttempted)]_vars

\* C19, for a run that finds its configuration file: the file is written at
\* most once, only after every entry of every feed was attempted, and a run
\* an exception ended leaves the file as it was when the run started.
C19_WritesOnceAtEnd ==
    /\ [](fileAtStart.isfile => saves <= 1)
    /\ []((fileAtStart.isfile /\ pc /= "done") => (saves = 0 /\ file = fileAtStart))
    /\ [][(fileAtStart'.isfile /\ saves' > saves) => (pc = "feed" /\ AllAttempted)]_vars

C19_Witness ==
    /\ fileAtStart.isfile
    /\ pc = "done"
    /\ saves = 1
    /\ file /= fileAtStart
    /\ Len(yielded) >= 2
    /\ yielded[1].feed /= yielded[2].feed

\* C15: cleanup is idempotent on its own output: cleanup(cleanup(x)) is
\* cleanup(x) for every text x.
C15_CleanupIdempotent ==
    clPc = "returned" => clResult.twice = clResult.once

\* C16: for a wordpress entry with more than one link of relation alternate,
\* get_entry's url is the href of the first link that is both of relation
\* alternate and of type text/html, whatever other links there are; the id
\* when there is no such link.
C16_FirstHtmlAlternate ==
    (/\ gePc = "returned"
     /\ geGenerator = "wordpress"
     /\ ~geResult.raised
     /\ Len(SelectSeq(geEntry.links, LAMBDA l : l.rel = "alternate")) > 1)
    => LET html == SelectSeq(geEntry.links,
                             LAMBDA l : l.rel = "alternate" /\ l.type = "text/html")
       IN  geResult.url = IF html /= <<>> THEN html[1].href ELSE geEntry.id

\* C17: for every generator and every tag list, the empty one included,
\* get_entry returns, and its hashtags are one hashtag per tag of the entry,
\* in the order of the tags.
C17_OneHashtagPerTag ==
    gePc = "returned" =>
        /\ ~geResult.raised
        /\ geResult.hashtags =
              JoinBlank([i \in 1..Len(geEntry.tags) |-> Hashtag(geEntry.tags[i])])

====
